---- MODULE Spec2Model ----
(***************************************************************************)
(* Deductly front end: the conversation turn classifier of ChatInterface   *)
(* (two variants: src/unnamed/part_003 inspects the last turn,             *)
(* src/unnamed/part_002 scans the whole history) and the tax profile       *)
(* normaliser of TaxCalculator.tsx (derived fields, zod validation,        *)
(* request assembly).                                                      *)
(*                                                                         *)
(* Spec    : one mounted ChatInterface (either variant) and its backend.   *)
(* SpecTax : one mounted TaxCalculator wizard and its backend.             *)
(***************************************************************************)
EXTENDS Integers, Sequences, FiniteSets, TLC

VARIABLES
    \* ---- ChatInterface ----
    variant,        \* which ChatInterface source is mounted
    sessionId,      \* prop sessionId
    messages,       \* useState<Message[]>
    inputValue,     \* useState("")
    isLoading,      \* useState(false)
    sendReqs,       \* send_message requests in flight
    loadReqs,       \* GET /chats/<id> requests in flight
    \* ---- TaxCalculator ----
    form,           \* react-hook-form values (UserFacingFormData)
    errors,         \* formState.errors: the fields reported by the resolver
    currentStep,    \* useState(1)
    calculationResult, \* useState<TaxCalculationResult | null>(null)
    isCalculating,  \* useState(false)
    error,          \* useState<string | null>(null)
    storedUserId,   \* localStorage "user" -> id
    storedSessionId,\* localStorage "session_id"
    location,       \* react-router location
    taxReq,         \* start_new_tax_session request in flight (or NoReq)
    edits,          \* number of field edits made so far (bounded)
    \* ---- AuthProvider ----
    authUser,       \* useState<User | null>(null): the user's id, or Null
    authLoading,    \* useState(true)
    storedToken     \* localStorage "token"

chatVars == <<variant, sessionId, messages, inputValue, isLoading, sendReqs, loadReqs>>
taxVars  == <<form, errors, currentStep, calculationResult, isCalculating, error,
              storedUserId, storedSessionId, location, taxReq, edits>>
authVars == <<authUser, authLoading, storedToken>>
vars     == <<chatVars, taxVars, authVars>>

(***************************************************************************)
(* Bounds                                                                  *)
(***************************************************************************)
MaxMessages == 5     \* length the local history may grow to
MaxInFlight == 1     \* history loads in flight at once
MaxHistory  == 2     \* length of a turn list returned by the backend
MaxEdits    == 2     \* field edits per wizard run

MaxContent  == 7     \* characters of a rendered message

(***************************************************************************)
(* JavaScript values                                                       *)
(***************************************************************************)
Null      == "null"
Undefined == "undefined"

\* JS numbers are integers here. NaN (valueAsNumber of an empty input) and an
\* undefined numeric field are encoded as two integers outside every input
\* range; every numeric operator below tests for them before comparing.
NaN          == -999999
UndefinedNum == -999998

\* typeof v === "number" && !isNaN(v), what z.number() accepts
IsNumber(v) == v \notin {NaN, UndefinedNum}

\* (v || 0) on a numeric field
OrZero(v) == IF v \in {NaN, UndefinedNum, 0} THEN 0 ELSE v

\* JS truthiness of a tool_call_id (string | null | undefined). Tool-call ids
\* are opaque non-empty strings.
Truthy(v) == v \notin {Null, Undefined, ""}

\* a ?? b
Nullish(a, b) == IF a \in {Null, Undefined} THEN b ELSE a

\* Texts are sequences of characters so that trim() can be computed.
RECURSIVE TrimLeft(_)
TrimLeft(s) == IF s /= <<>> /\ Head(s) = " " THEN TrimLeft(Tail(s)) ELSE s

RECURSIVE TrimRight(_)
TrimRight(s) ==
    IF s /= <<>> /\ s[Len(s)] = " " THEN TrimRight(SubSeq(s, 1, Len(s) - 1)) ELSE s

Trim(s) == TrimRight(TrimLeft(s))

RemoveAt(s, i) == SubSeq(s, 1, i - 1) \o SubSeq(s, i + 1, Len(s))

(***************************************************************************)
(* ChatInterface                                                           *)
(***************************************************************************)
LastTurn    == "part_003"
FullHistory == "part_002"
Variants    == {LastTurn, FullHistory}

NoSession  == Undefined
SessionIds == {"A"}
ToolCallIds == {"x"}

\* what the user can have in the input box
InputTexts == { <<>>, <<" ">>, <<" ", "a">> }
BotText    == <<"r">>
ErrorText  == <<"E", "r", "r", "o", "r", ":">>

\* Message = BaseMessage & { tool_call_id?: string | null }
\* (id, timestamp and type do not influence any decision and are left out)
Message(sender, content, tci) ==
    [sender |-> sender, content |-> content, tool_call_id |-> tci]

\* turns as the backend returns them: a user turn without the field, a tool
\* turn that names its call, and assistant turns with null or with an id
BackendTurn(role, tci) == [role |-> role, content |-> BotText, tool_call_id |-> tci]
BackendTurns ==
    {BackendTurn("user", Undefined), BackendTurn("assistant", Null)}
    \cup { BackendTurn(r, id) : r \in {"tool", "assistant"}, id \in ToolCallIds }

SeqsUpTo(S, n) == UNION { [1..k -> S] : k \in 0..n }

BackendHistories == SeqsUpTo(BackendTurns, MaxHistory)

\* LastTurnFlag without the sender test
LastTurnFlagAnySender(msgs) ==
    /\ Len(msgs) > 0
    /\ Truthy(msgs[Len(msgs)].tool_call_id)

\* LastTurnFlag looking at the last assistant message instead of the last message
LastTurnFlagLastAssistant(msgs) ==
    \E i \in 1..Len(msgs) :
        /\ msgs[i].sender = "assistant" /\ Truthy(msgs[i].tool_call_id)
        /\ \A j \in (i + 1)..Len(msgs) : msgs[j].sender /= "assistant"

\* part_003: the VERY LAST message is from the assistant and has a tool_call_id
LastTurnFlag(msgs) ==
    /\ Len(msgs) > 0                    \* lastMessage is not null
    /\ LET lastMessage == msgs[Len(msgs)]
       IN  /\ lastMessage.sender = "assistant"
           /\ Truthy(lastMessage.tool_call_id)

\* FullHistoryFlag that stops at the first assistant message from the end
FullHistoryFlagNearest(msgs) ==
    \E i \in 1..Len(msgs) :
        /\ msgs[i].sender = "assistant" /\ Truthy(msgs[i].tool_call_id)
        /\ \A j \in (i + 1)..Len(msgs) : msgs[j].sender /= "assistant"

\* part_002: [...messages].reverse().find(assistant with tool_call_id)
FullHistoryFlag(msgs) ==
    \E i \in 1..Len(msgs) :
        msgs[i].sender = "assistant" /\ Truthy(msgs[i].tool_call_id)

isInterruptionResponse(v, msgs) ==
    IF v = LastTurn THEN LastTurnFlag(msgs) ELSE FullHistoryFlag(msgs)

\* ClassifiedHistory taken after setMessages appended the outgoing message
ClassifiedHistoryAfterAppend(msgs, userMessage) == Append(msgs, userMessage)

\* the history the outgoing message is classified against: the messages of
\* the render the handler closes over, read before setMessages
ClassifiedHistory(msgs, userMessage) == msgs

\* MapHistory listing the turns newest first
MapHistoryReversed(hist) ==
    [i \in 1..Len(hist) |->
        Message(IF hist[Len(hist) + 1 - i].role = "assistant" THEN "assistant" ELSE "user",
                hist[Len(hist) + 1 - i].content,
                Nullish(hist[Len(hist) + 1 - i].tool_call_id, Null))]

\* data.chat_history.map(...)
MapHistory(hist) ==
    [i \in 1..Len(hist) |->
        Message(IF hist[i].role = "assistant" THEN "assistant" ELSE "user",
                hist[i].content,
                Nullish(hist[i].tool_call_id, Null))]

\* ReplySource taking the first element
ReplySourceFirst(newHistory) == newHistory[1]

\* the element of updated_chat_history the reply takes its tool_call_id from
ReplySource(newHistory) == newHistory[Len(newHistory)]

\* A JSON value that may or may not be an array: [isArray, items]
NotArray  == [isArray |-> FALSE, items |-> <<>>]
Array(xs) == [isArray |-> TRUE, items |-> xs]

\* tool_call_id of the aiResponse built from data.updated_chat_history
ReplyToolCallId(v, newHistory) ==
    IF v = LastTurn
    THEN \* lastBotMessageInHistory?.tool_call_id ?? null
         IF newHistory.isArray /\ Len(newHistory.items) > 0
         THEN Nullish(ReplySource(newHistory.items).tool_call_id, Null)
         ELSE Null
    ELSE \* the field is only spread in when the last tool_call_id is truthy
         IF newHistory.isArray /\ Len(newHistory.items) > 0
              /\ Truthy(ReplySource(newHistory.items).tool_call_id)
         THEN ReplySource(newHistory.items).tool_call_id
         ELSE Undefined

\* data.updated_chat_history as the backend returns it with a reply: the
\* handler reads its last element only
ReplyHistories ==
    LET U  == BackendTurn("user", Undefined)
        A0 == BackendTurn("assistant", Null)
        Ax == BackendTurn("assistant", "x")
        Tx == BackendTurn("tool", "x")
    IN  { <<>>, <<U>>, <<A0>>, <<Ax>>, <<Tx>>, <<Ax, A0>>, <<A0, Ax>>, <<Ax, U>> }

\* bodies of a successful send_message response; updated_chat_history is
\* only read when bot_response is there, so one body stands for those without
SendResponses ==
    {[bot_response |-> <<>>, updated_chat_history |-> NotArray]}
    \cup [bot_response : {BotText},
          updated_chat_history : {NotArray} \cup { Array(h) : h \in ReplyHistories }]

\* bodies of a GET /chats/<id> response: data.chat_history
LoadResponses == {NotArray} \cup { Array(h) : h \in BackendHistories }

\* const payload = { message, is_interruption_response }
Payload(message, flag) ==
    [message |-> message, is_interruption_response |-> flag]

\* ---- history-load effect, deps [sessionId, chatHistory] ----
\* Chat.tsx passes no chatHistory prop, so chatHistory is the default [].
HistoryEffect(sid) ==
    IF sid /= NoSession
    THEN /\ isLoading' = IF variant = LastTurn THEN TRUE ELSE isLoading
         /\ loadReqs' = Append(loadReqs, sid)
         /\ UNCHANGED messages
    ELSE /\ messages' = <<>>
         /\ UNCHANGED <<isLoading, loadReqs>>

\* the parent renders the component with another sessionId
SelectSession(sid) ==
    /\ sid /= sessionId
    /\ sid /= NoSession => Len(loadReqs) < MaxInFlight
    /\ sessionId' = sid
    /\ HistoryEffect(sid)
    /\ UNCHANGED <<variant, inputValue, sendReqs, taxVars, authVars>>

\* the effect runs again after a render: the default chatHistory = [] is a
\* fresh array on every render, so the dependency list always differs
RerunHistoryEffect ==
    /\ sessionId /= NoSession => Len(loadReqs) < MaxInFlight
    /\ sessionId = NoSession => messages /= <<>>
    /\ HistoryEffect(sessionId)
    /\ UNCHANGED <<variant, sessionId, inputValue, sendReqs, taxVars, authVars>>

\* .then(res => res.json()).then(data => ...) [.catch].finally
HistoryLoaded(i, data) ==
    /\ i \in 1..Len(loadReqs)
    /\ messages' = IF data.isArray THEN MapHistory(data.items) ELSE messages
    /\ isLoading' = IF variant = LastTurn THEN FALSE ELSE isLoading
    /\ loadReqs' = RemoveAt(loadReqs, i)
    /\ data \in LoadResponses
    /\ UNCHANGED <<variant, sessionId, inputValue, sendReqs, taxVars, authVars>>

\* the fetch rejects or the body is not JSON
HistoryLoadFailed(i) ==
    /\ i \in 1..Len(loadReqs)
    /\ isLoading' = IF variant = LastTurn THEN FALSE ELSE isLoading
    /\ loadReqs' = RemoveAt(loadReqs, i)
    /\ UNCHANGED <<variant, sessionId, messages, inputValue, sendReqs, taxVars, authVars>>

\* <Input onChange> and the suggestion buttons, all disabled={isLoading}
SetInputValue(text) ==
    /\ ~isLoading
    /\ text \in InputTexts
    /\ text /= inputValue
    /\ inputValue' = text
    /\ UNCHANGED <<variant, sessionId, messages, isLoading, sendReqs, loadReqs,
                   taxVars, authVars>>

\* handleSendMessage up to and including fetch(...)
handleSendMessage ==
    /\ ~(Trim(inputValue) = <<>> \/ isLoading \/ sessionId = NoSession)
    /\ Len(messages) + Len(sendReqs) + 2 <= MaxMessages  \* room for the replies
    /\ LET userMessage == Message("user", inputValue, Undefined)
           flag == isInterruptionResponse(variant,
                                          ClassifiedHistory(messages, userMessage))
       IN  /\ messages' = Append(messages, userMessage)
           /\ sendReqs' = Append(sendReqs,
                  [session |-> sessionId,
                   body |-> Payload(userMessage.content, flag)])
    /\ inputValue' = <<>>
    /\ isLoading' = TRUE
    /\ UNCHANGED <<variant, sessionId, loadReqs, taxVars, authVars>>

\* res.ok: .then(res => res.json()).then(data => ...).finally(...) for the
\* response body data of request i
SendResponseOk(i, data) ==
    /\ i \in 1..Len(sendReqs)
    /\ messages' =
          IF data.bot_response /= <<>>
          THEN Append(messages,
                      Message("assistant", data.bot_response,
                              ReplyToolCallId(variant, data.updated_chat_history)))
          ELSE messages
    /\ isLoading' = FALSE
    /\ sendReqs' = RemoveAt(sendReqs, i)
    /\ data \in SendResponses
    /\ UNCHANGED <<variant, sessionId, inputValue, loadReqs, taxVars, authVars>>

\* SendFailed whose error message carries a tool_call_id
SendFailedWithToolCall(i) ==
    /\ i \in 1..Len(sendReqs)
    /\ messages' =
          IF variant = LastTurn
          THEN Append(messages, Message("assistant", ErrorText, "x"))
          ELSE messages
    /\ isLoading' = FALSE
    /\ sendReqs' = RemoveAt(sendReqs, i)
    /\ UNCHANGED <<variant, sessionId, inputValue, loadReqs, taxVars, authVars>>

\* !res.ok or a network error: .catch(err => ...).finally(...)
SendFailed(i) ==
    /\ i \in 1..Len(sendReqs)
    /\ messages' =
          IF variant = LastTurn
          THEN Append(messages, Message("assistant", ErrorText, Undefined))
          ELSE messages
    /\ isLoading' = FALSE
    /\ sendReqs' = RemoveAt(sendReqs, i)
    /\ UNCHANGED <<variant, sessionId, inputValue, loadReqs, taxVars, authVars>>

\* ---- formatContent ----
\* A content is a sequence of characters; the tags formatContent writes are
\* single elements of its result. The contents rendered here hold none of
\* "#", "`", "_", "~" and no "**", so the heading, bold, code and removal
\* replacements leave them as they are.
IsSpace(c) == c \in {" ", "\n"}          \* \s
IsBulletChar(c) == c \in {"-", "*"}      \* [-*]

\* ^ with the m flag: the start of the text or the place after a newline
LineStart(s, i) == i = 1 \/ s[i - 1] = "\n"

\* the first place at or after i that holds no white space (\s* is greedy)
RECURSIVE SkipSpace(_, _)
SkipSpace(s, i) ==
    IF i <= Len(s) /\ IsSpace(s[i]) THEN SkipSpace(s, i + 1) ELSE i

\* the end of the line that holds place i: (.*)$ stops before the newline
RECURSIVE LineEnd(_, _)
LineEnd(s, i) ==
    IF i <= Len(s) /\ s[i] /= "\n" THEN LineEnd(s, i + 1) ELSE i

\* /^\s*[-*]\s?(.*)$/ matches at i; ItemStart is where its group begins
BulletAt(s, i) ==
    /\ LineStart(s, i)
    /\ SkipSpace(s, i) <= Len(s)
    /\ IsBulletChar(s[SkipSpace(s, i)])

ItemStart(s, i) ==
    LET k == SkipSpace(s, i) + 1
    IN  IF k <= Len(s) /\ IsSpace(s[k]) THEN k + 1 ELSE k

\* .replace(/^\s*[-*]\s?(.*)$/gm, "<li>$1</li>") from place i on
RECURSIVE ListItems(_, _)
ListItems(s, i) ==
    IF i > Len(s) THEN <<>>
    ELSE IF BulletAt(s, i)
    THEN LET t == ItemStart(s, i)
             e == LineEnd(s, t)
         IN  <<"<li>">> \o SubSeq(s, t, e - 1) \o <<"</li>">> \o ListItems(s, e)
    ELSE <<s[i]>> \o ListItems(s, i + 1)

\* the first "</li>" at or after place i, Len(h) + 1 when there is none
RECURSIVE FirstClose(_, _)
FirstClose(h, i) ==
    IF i <= Len(h) /\ h[i] /= "</li>" THEN FirstClose(h, i + 1) ELSE i

\* .replace(/(<li>[\s\S]*?<\/li>)/g, "<ul>$1</ul>") from place i on: the lazy
\* group ends at the first "</li>" after its "<li>"
RECURSIVE WrapLists(_, _)
WrapLists(h, i) ==
    IF i > Len(h) THEN <<>>
    ELSE IF h[i] = "<li>" /\ FirstClose(h, i) <= Len(h)
    THEN LET j == FirstClose(h, i)
         IN  <<"<ul>">> \o SubSeq(h, i, j) \o <<"</ul>">> \o WrapLists(h, j + 1)
    ELSE <<h[i]>> \o WrapLists(h, i + 1)

formatContent(content) ==
    IF content = <<>> THEN <<>>      \* if (!content) return ""
    ELSE WrapLists(ListItems(content, 1), 1)

(***************************************************************************)
(* TaxCalculator                                                           *)
(***************************************************************************)
totalSteps == 5

Ui80CFields ==
    {"ui_investments.epf", "ui_investments.ppf", "ui_investments.lic",
     "ui_investments.elss", "ui_investments.home_loan_principal",
     "ui_investments.other_80c"}

UiParentsFields == {"ui_parents_age.father_age", "ui_parents_age.mother_age"}

\* the keys of taxFormSchema (TaxFormData)
SchemaFields ==
    {"salary", "user_age", "is_senior_citizen",
     "investments.80C_investments", "investments.nps_contribution",
     "health_insurance_premium", "parents_health_insurance_premium",
     "medical_expenses", "parents_age", "housing_loan_interest",
     "property_status", "donation_amount", "education_loan_interest",
     "disability_details.is_disabled", "disability_details.type",
     "other_income.interest_from_savings",
     "other_income.fixed_deposit_interest"}

\* UserFacingFormData = TaxFormData & { ui_investments, ui_parents_age }
FormFields == SchemaFields \cup Ui80CFields \cup UiParentsFields

PropertyStatuses == {"self_occupied", "let_out", "deemed_let_out"}
DisabilityTypes  == {"normal_disability", "severe_disability"}

\* useForm({ defaultValues })
defaultValues ==
    [f \in FormFields |->
        CASE f = "user_age" -> 25
          [] f = "is_senior_citizen" -> FALSE
          [] f = "property_status" -> "self_occupied"
          [] f = "disability_details.is_disabled" -> FALSE
          [] f = "disability_details.type" -> Undefined
          [] f \in UiParentsFields -> UndefinedNum
          [] OTHER -> 0]

\* fields with an <Input type="number" {...register(f, {valueAsNumber})}>,
\* and the wizard step that renders each
RegisteredStep ==
    [f \in {"salary", "user_age"} |-> 1]
    @@ [f \in Ui80CFields \cup {"investments.nps_contribution"} |-> 2]
    @@ [f \in {"health_insurance_premium", "parents_health_insurance_premium",
               "medical_expenses"} \cup UiParentsFields |-> 3]
    @@ [f \in {"housing_loan_interest", "education_loan_interest",
               "donation_amount"} |-> 4]
    @@ [f \in {"other_income.interest_from_savings",
               "other_income.fixed_deposit_interest"} |-> 5]

RegisteredFields == DOMAIN RegisteredStep

\* what the user types into each number input
InputValues(f) ==
    CASE f = "salary" -> {NaN, -1, 500000}
      [] f = "user_age" -> {NaN, 17, 18, 59, 60, 100, 101}
      [] f = "ui_investments.epf" -> {NaN, -1, 50000, 100000}
      [] f \in Ui80CFields -> {NaN, 100000}
      [] f = "investments.nps_contribution" -> {-1, 50000, 50001}
      [] f \in UiParentsFields -> {NaN, -5, 63, 70}
      [] OTHER -> {-1, 1000}

\* SeniorCitizen with the boundary one year late
SeniorCitizenOver60(age) == IsNumber(age) /\ age > 60

\* useEffect [watchedValues.user_age]
SeniorCitizen(age) == IsNumber(age) /\ age >= 60

\* Total80C capped at the statutory ceiling
Total80CCapped(f) ==
    LET sum == OrZero(f["ui_investments.epf"]) + OrZero(f["ui_investments.ppf"])
               + OrZero(f["ui_investments.lic"]) + OrZero(f["ui_investments.elss"])
               + OrZero(f["ui_investments.home_loan_principal"])
               + OrZero(f["ui_investments.other_80c"])
    IN  IF sum > 150000 THEN 150000 ELSE sum

\* Total80C that subtracts the home-loan principal
Total80CMinusPrincipal(f) ==
    OrZero(f["ui_investments.epf"]) + OrZero(f["ui_investments.ppf"])
    + OrZero(f["ui_investments.lic"]) + OrZero(f["ui_investments.elss"])
    - OrZero(f["ui_investments.home_loan_principal"])
    + OrZero(f["ui_investments.other_80c"])

\* useEffect [watchedValues.ui_investments]
Total80C(f) ==
    OrZero(f["ui_investments.epf"]) + OrZero(f["ui_investments.ppf"])
    + OrZero(f["ui_investments.lic"]) + OrZero(f["ui_investments.elss"])
    + OrZero(f["ui_investments.home_loan_principal"])
    + OrZero(f["ui_investments.other_80c"])

\* ParentsAge rounding the average up
ParentsAgeCeil(father_age, mother_age) ==
    LET fAge == IF OrZero(father_age) /= 0 /\ father_age > 0 THEN father_age ELSE 0
        mAge == IF OrZero(mother_age) /= 0 /\ mother_age > 0 THEN mother_age ELSE 0
    IN  IF fAge /= 0 /\ mAge /= 0 THEN (fAge + mAge + 1) \div 2
        ELSE IF fAge /= 0 THEN fAge
        ELSE IF mAge /= 0 THEN mAge
        ELSE 0

\* useEffect [watchedValues.ui_parents_age]
ParentsAge(father_age, mother_age) ==
    LET fAge == IF OrZero(father_age) /= 0 /\ father_age > 0 THEN father_age ELSE 0
        mAge == IF OrZero(mother_age) /= 0 /\ mother_age > 0 THEN mother_age ELSE 0
    IN  IF fAge /= 0 /\ mAge /= 0 THEN (fAge + mAge) \div 2
        ELSE IF fAge /= 0 THEN fAge
        ELSE IF mAge /= 0 THEN mAge
        ELSE 0

\* RunEffects whose 80C effect only watches ui_investments.epf
RunEffectsEpfOnly(f, fld) ==
    IF fld = "user_age"
    THEN [f EXCEPT !["is_senior_citizen"] = SeniorCitizen(f["user_age"])]
    ELSE IF fld = "ui_investments.epf"
    THEN [f EXCEPT !["investments.80C_investments"] = Total80C(f)]
    ELSE IF fld \in UiParentsFields
    THEN [f EXCEPT !["parents_age"] =
             ParentsAge(f["ui_parents_age.father_age"],
                        f["ui_parents_age.mother_age"])]
    ELSE f

\* the effects that run after the render that follows a change of field fld
RunEffects(f, fld) ==
    IF fld = "user_age"
    THEN [f EXCEPT !["is_senior_citizen"] = SeniorCitizen(f["user_age"])]
    ELSE IF fld \in Ui80CFields
    THEN [f EXCEPT !["investments.80C_investments"] = Total80C(f)]
    ELSE IF fld \in UiParentsFields
    THEN [f EXCEPT !["parents_age"] =
             ParentsAge(f["ui_parents_age.father_age"],
                        f["ui_parents_age.mother_age"])]
    ELSE f

\* SchemaAccepts without the .max(150000) of 80C_investments
SchemaAcceptsNo80CMax(f, fld) ==
    LET v == f[fld]
    IN  CASE fld = "user_age" -> IsNumber(v) /\ v >= 18 /\ v <= 100
          [] fld = "investments.nps_contribution" ->
                 IsNumber(v) /\ v >= 0 /\ v <= 50000
          [] fld = "parents_age" ->
                 v = UndefinedNum \/ (IsNumber(v) /\ v >= 0 /\ v <= 120)
          [] fld \in {"is_senior_citizen", "disability_details.is_disabled"} ->
                 v \in BOOLEAN
          [] fld = "property_status" -> v \in PropertyStatuses
          [] fld = "disability_details.type" ->
                 v = Undefined \/ v \in DisabilityTypes
          [] OTHER -> IsNumber(v) /\ v >= 0

\* taxFormSchema, one key at a time: TRUE iff zod raises no issue for the key
SchemaAccepts(f, fld) ==
    LET v == f[fld]
    IN  CASE fld = "user_age" -> IsNumber(v) /\ v >= 18 /\ v <= 100
          [] fld = "investments.80C_investments" ->
                 IsNumber(v) /\ v >= 0 /\ v <= 150000
          [] fld = "investments.nps_contribution" ->
                 IsNumber(v) /\ v >= 0 /\ v <= 50000
          [] fld = "parents_age" ->
                 v = UndefinedNum \/ (IsNumber(v) /\ v >= 0 /\ v <= 120)
          [] fld \in {"is_senior_citizen", "disability_details.is_disabled"} ->
                 v \in BOOLEAN
          [] fld = "property_status" -> v \in PropertyStatuses
          [] fld = "disability_details.type" ->
                 v = Undefined \/ v \in DisabilityTypes
          [] OTHER -> IsNumber(v) /\ v >= 0

\* zodResolver(taxFormSchema): zod collects the issues of every key, the
\* resolver reports each against its own path
Resolver(f) == { fld \in SchemaFields : ~SchemaAccepts(f, fld) }

\* the parsed values handed to onValid: zod strips the keys not in the schema
ParsedData(f) == [fld \in SchemaFields |-> f[fld]]

\* requestPayload.user_details
PayloadFields == SchemaFields

\* requestPayload that fills parents_health_insurance_premium from the
\* user's own premium
requestPayloadSwapped(data) ==
    [fld \in PayloadFields |->
        IF fld = "disability_details.type"
        THEN (IF data[fld] = Undefined THEN Null ELSE data[fld])
        ELSE IF fld = "parents_health_insurance_premium"
        THEN data["health_insurance_premium"]
        ELSE data[fld]]

requestPayload(data) ==
    [fld \in PayloadFields |->
        IF fld = "disability_details.type"
        THEN (IF data[fld] = Undefined THEN Null ELSE data[fld])   \* type || null
        ELSE data[fld]]

\* the schema keys whose values are numbers
NumberFields ==
    SchemaFields \ {"is_senior_citizen", "property_status",
                    "disability_details.is_disabled", "disability_details.type"}

\* JSON.stringify of the (nested) object whose leaves are data: a key whose
\* value is undefined is left out, NaN is written as null. A leaf is named
\* by the dotted path of its key names, as the schema keys are.
JsonKeys(data) ==
    { fld \in DOMAIN data :
        IF fld \in NumberFields THEN data[fld] /= UndefinedNum
        ELSE IF fld = "disability_details.type" THEN data[fld] /= Undefined
        ELSE TRUE }

JsonValue(data, fld) ==
    IF fld \in NumberFields /\ data[fld] = NaN THEN Null ELSE data[fld]

\* body: JSON.stringify(requestPayload), requestPayload = { user_details }
RequestBody(user_details) ==
    [p \in { "user_details." \o fld : fld \in JsonKeys(user_details) } |->
        JsonValue(user_details,
                  CHOOSE fld \in JsonKeys(user_details) : p = "user_details." \o fld)]

\* part_004: body: JSON.stringify(data), data: TaxFormData
StructuredRequestBody(data) ==
    [fld \in JsonKeys(data) |-> JsonValue(data, fld)]

NoReq == [sent |-> FALSE]
TaxRequest(userId, payload) ==
    [sent |-> TRUE, userId |-> userId, user_details |-> payload]

NoResult == [present |-> FALSE]

\* a result text: the sum of its "- **section**: amount" lines and, when the
\* three-line totals block is there, its three amounts
ResultTexts ==
    [bullets : {0, 150000}, hasTotals : {FALSE}, totals : {<<0, 0, 0>>}]
    \cup [bullets : {0, 150000}, hasTotals : {TRUE},
          totals : {<<200000, 300000, 10000>>}]

parseTaxResponse(response) ==
    [present |-> TRUE,
     total_tax_liability |-> IF response.hasTotals THEN response.totals[3] ELSE 0,
     total_deductions |->
         IF response.hasTotals THEN response.totals[1] ELSE response.bullets,
     taxable_income |-> IF response.hasTotals THEN response.totals[2] ELSE 0]

\* error messages
NoError        == Null
ErrNoUser      == "User ID is required for tax calculation"
ErrFailed      == "Tax calculation failed"
ErrTypeError   == "Cannot read properties of undefined"

\* every input of the wizard lives on the calculator page
OnCalculator == location = "/calculator"

\* onChange of a registered number input, followed by the render and effects
EditField(fld, v) ==
    /\ OnCalculator
    /\ fld \in RegisteredFields
    /\ currentStep = RegisteredStep[fld]
    /\ v \in InputValues(fld)
    /\ v /= form[fld]
    /\ edits < MaxEdits
    /\ edits' = edits + 1
    /\ form' = RunEffects([form EXCEPT ![fld] = v], fld)
    /\ UNCHANGED <<errors, currentStep, calculationResult, isCalculating, error,
                   storedUserId, storedSessionId, location, taxReq, chatVars, authVars>>

\* <Switch onCheckedChange={checked => setValue("disability_details.is_disabled", checked)}>
ToggleDisabled ==
    /\ OnCalculator
    /\ currentStep = 3
    /\ edits < MaxEdits
    /\ edits' = edits + 1
    /\ form' = [form EXCEPT !["disability_details.is_disabled"] = ~@]
    /\ UNCHANGED <<errors, currentStep, calculationResult, isCalculating, error,
                   storedUserId, storedSessionId, location, taxReq, chatVars, authVars>>

\* the disability <Select>, rendered only while is_disabled is on
SelectDisabilityType(t) ==
    /\ OnCalculator
    /\ currentStep = 3
    /\ form["disability_details.is_disabled"]
    /\ t \in DisabilityTypes
    /\ t /= form["disability_details.type"]
    /\ edits < MaxEdits
    /\ edits' = edits + 1
    /\ form' = [form EXCEPT !["disability_details.type"] = t]
    /\ UNCHANGED <<errors, currentStep, calculationResult, isCalculating, error,
                   storedUserId, storedSessionId, location, taxReq, chatVars, authVars>>

\* the property status <Select>
SelectPropertyStatus(p) ==
    /\ OnCalculator
    /\ currentStep = 4
    /\ p \in PropertyStatuses
    /\ p /= form["property_status"]
    /\ edits < MaxEdits
    /\ edits' = edits + 1
    /\ form' = [form EXCEPT !["property_status"] = p]
    /\ UNCHANGED <<errors, currentStep, calculationResult, isCalculating, error,
                   storedUserId, storedSessionId, location, taxReq, chatVars, authVars>>

\* nextStep that lets the wizard step past the last form step
nextStepPastLast ==
    /\ OnCalculator
    /\ currentStep <= totalSteps
    /\ currentStep' = currentStep + 1
    /\ UNCHANGED <<form, errors, calculationResult, isCalculating, error,
                   storedUserId, storedSessionId, location, taxReq, edits, chatVars, authVars>>

\* the Next button is rendered while currentStep < totalSteps
nextStep ==
    /\ OnCalculator
    /\ currentStep < totalSteps
    /\ currentStep' = currentStep + 1
    /\ UNCHANGED <<form, errors, calculationResult, isCalculating, error,
                   storedUserId, storedSessionId, location, taxReq, edits, chatVars, authVars>>

\* Previous is disabled at step 1 and past totalSteps
prevStep ==
    /\ OnCalculator
    /\ ~(currentStep = 1 \/ currentStep > totalSteps)
    /\ currentStep > 1
    /\ currentStep' = currentStep - 1
    /\ UNCHANGED <<form, errors, calculationResult, isCalculating, error,
                   storedUserId, storedSessionId, location, taxReq, edits, chatVars, authVars>>

\* handleCalculateTax that sends the watched form values instead of the
\* payload built from the parsed data
handleCalculateTaxSendsWatched(data) ==
    IF storedUserId = ""
    THEN /\ error' = ErrNoUser
         /\ isCalculating' = FALSE
         /\ UNCHANGED taxReq
    ELSE /\ error' = NoError
         /\ isCalculating' = TRUE
         /\ taxReq' = TaxRequest(storedUserId, form)

\* handleCalculateTax without the check of the user id
handleCalculateTaxNoUserCheck(data) ==
    /\ error' = NoError
    /\ isCalculating' = TRUE
    /\ taxReq' = TaxRequest(storedUserId, requestPayload(data))

\* handleCalculateTax(data) up to the await of fetch, or through catch/finally
\* when the stored user has no id
handleCalculateTax(data) ==
    IF storedUserId = ""
    THEN /\ error' = ErrNoUser
         /\ isCalculating' = FALSE
         /\ UNCHANGED taxReq
    ELSE /\ error' = NoError
         /\ isCalculating' = TRUE
         /\ taxReq' = TaxRequest(storedUserId, requestPayload(data))

\* SubmitForm whose button is not disabled while calculating
SubmitFormWhileCalculating ==
    /\ OnCalculator
    /\ currentStep = totalSteps
    /\ errors' = Resolver(form)
    /\ IF Resolver(form) = {}
       THEN handleCalculateTax(ParsedData(form))
       ELSE UNCHANGED <<error, isCalculating, taxReq>>
    /\ UNCHANGED <<form, currentStep, calculationResult, storedUserId,
                   storedSessionId, location, edits, chatVars, authVars>>

\* <form onSubmit={handleSubmit(handleCalculateTax)}>: the submit button is
\* rendered at step totalSteps and disabled while isCalculating
SubmitForm ==
    /\ OnCalculator
    /\ currentStep = totalSteps
    /\ ~isCalculating
    /\ errors' = Resolver(form)
    /\ IF Resolver(form) = {}
       THEN handleCalculateTax(ParsedData(form))
       ELSE UNCHANGED <<error, isCalculating, taxReq>>
    /\ UNCHANGED <<form, currentStep, calculationResult, storedUserId,
                   storedSessionId, location, edits, chatVars, authVars>>

\* TaxRequestFailed that leaves the wizard calculating
TaxRequestFailedStillCalculating ==
    /\ taxReq.sent
    /\ taxReq' = NoReq
    /\ error' = ErrFailed
    /\ UNCHANGED <<form, errors, currentStep, calculationResult, isCalculating,
                   storedUserId, storedSessionId, location, edits, chatVars, authVars>>

\* !response.ok, or fetch rejects
TaxRequestFailed ==
    /\ taxReq.sent
    /\ taxReq' = NoReq
    /\ error' = ErrFailed
    /\ isCalculating' = FALSE
    /\ UNCHANGED <<form, errors, currentStep, calculationResult, storedUserId,
                   storedSessionId, location, edits, chatVars, authVars>>

\* TaxSessionStarted that falls through to the result step
TaxSessionStartedThenResult(sid) ==
    /\ taxReq.sent
    /\ sid \in SessionIds
    /\ taxReq' = NoReq
    /\ storedSessionId' = sid
    /\ location' = "/chat"
    /\ currentStep' = 6
    /\ isCalculating' = FALSE
    /\ UNCHANGED <<form, errors, calculationResult, error,
                   storedUserId, edits, chatVars, authVars>>

\* responseData.session_id: store it and navigate to the chat page
TaxSessionStarted(sid) ==
    /\ taxReq.sent
    /\ sid \in SessionIds
    /\ taxReq' = NoReq
    /\ storedSessionId' = sid
    /\ location' = "/chat"
    /\ isCalculating' = FALSE
    /\ UNCHANGED <<form, errors, currentStep, calculationResult, error,
                   storedUserId, edits, chatVars, authVars>>

\* no session_id, initial_bot_response || bot_response is a text
TaxResultReturned(text) ==
    /\ taxReq.sent
    /\ text \in ResultTexts
    /\ taxReq' = NoReq
    /\ calculationResult' = parseTaxResponse(text)
    /\ currentStep' = 6
    /\ isCalculating' = FALSE
    /\ UNCHANGED <<form, errors, error, storedUserId, storedSessionId,
                   location, edits, chatVars, authVars>>

\* neither session_id nor a text: parseTaxResponse(undefined) throws
TaxResponseEmpty ==
    /\ taxReq.sent
    /\ taxReq' = NoReq
    /\ error' = ErrTypeError
    /\ isCalculating' = FALSE
    /\ UNCHANGED <<form, errors, currentStep, calculationResult, storedUserId,
                   storedSessionId, location, edits, chatVars, authVars>>

\* step 6: <Button onClick={() => navigate("/chat")}>, rendered with the result
openChat ==
    /\ OnCalculator
    /\ currentStep = 6
    /\ calculationResult.present
    /\ location' = "/chat"
    /\ UNCHANGED <<form, errors, currentStep, calculationResult, isCalculating,
                   error, storedUserId, storedSessionId, taxReq, edits, chatVars, authVars>>

\* localStorage.removeItem("user") and ("token"), by logout() in another tab
StorageCleared ==
    /\ storedUserId /= ""
    /\ storedUserId' = ""
    /\ storedToken' = Null
    /\ UNCHANGED <<form, errors, currentStep, calculationResult, isCalculating,
                   error, storedSessionId, location, taxReq, edits, chatVars,
                   authUser, authLoading>>

(***************************************************************************)
(* AuthProvider (the provider that stores user and token) and the routes   *)
(***************************************************************************)
UserIds == {"u1", "u2", "u3"}
Tokens  == {"t"}

\* <Route path=...>
AuthRoutes      == {"/login", "/signup"}
ProtectedRoutes == {"/dashboard", "/calculator", "/chat", "/submissions",
                    "/history", "/settings"}
Routes          == {"/"} \cup AuthRoutes \cup ProtectedRoutes

\* bodies of an ok /login or /signup response: user_id may be missing, named
\* tells whether username and email are both there, token may be missing
AuthResponses ==
    [user_id : UserIds \cup {""}, named : BOOLEAN, token : Tokens \cup {Undefined}]

\* where ProtectedRoute / AuthRoute leave the browser once loading is over
Routed(loc, user) ==
    IF user = Null /\ loc \in ProtectedRoutes THEN "/login"
    ELSE IF user /= Null /\ loc \in AuthRoutes THEN "/dashboard"
    ELSE loc

\* the state of the pages, which the provider does not touch
pageVars == <<form, errors, currentStep, calculationResult, isCalculating, error,
              storedSessionId, taxReq, edits>>

\* the mount effect; a record in localStorage was written by
\* handleAuthResponse, so it is JSON and not the text 'undefined'
AuthInitEffect ==
    /\ authLoading
    /\ authUser' = IF storedToken /= Null /\ storedUserId /= ""
                   THEN storedUserId ELSE authUser
    /\ authLoading' = FALSE
    /\ location' = Routed(location, authUser')
    /\ UNCHANGED <<storedUserId, storedToken, pageVars, chatVars>>

\* the page is loaded again: a new provider, user null and loading true
Reload ==
    /\ ~authLoading
    /\ authUser' = Null
    /\ authLoading' = TRUE
    /\ UNCHANGED <<storedUserId, storedToken, location, pageVars, chatVars>>

\* handleAuthResponse(data); it throws, changing nothing, on a response
\* without user_id, username or email
handleAuthResponse(data) ==
    IF data.user_id = "" \/ ~data.named
    THEN UNCHANGED <<storedUserId, storedToken, authUser, location>>
    ELSE /\ storedUserId' = data.user_id
         /\ storedToken' = IF Truthy(data.token) THEN data.token ELSE storedToken
         /\ authUser' = data.user_id
         /\ location' = Routed(location, data.user_id)

\* login(username, password) with an ok response data
login(data) ==
    /\ ~authLoading /\ authUser = Null /\ location = "/login"
    /\ data \in AuthResponses
    /\ handleAuthResponse(data)
    /\ UNCHANGED <<authLoading, pageVars, chatVars>>

\* signup(username, email, password) with an ok response data
signup(data) ==
    /\ ~authLoading /\ authUser = Null /\ location = "/signup"
    /\ data \in AuthResponses
    /\ handleAuthResponse(data)
    /\ UNCHANGED <<authLoading, pageVars, chatVars>>

\* logout(), from the header of a protected page
logout ==
    /\ ~authLoading /\ authUser /= Null /\ location \in ProtectedRoutes
    /\ authUser' = Null
    /\ storedUserId' = ""
    /\ storedToken' = Null
    /\ location' = Routed(location, Null)
    /\ UNCHANGED <<authLoading, pageVars, chatVars>>

\* a link or a typed address, handled by the router without a page load
NavigateTo(route) ==
    /\ ~authLoading
    /\ route \in Routes
    /\ Routed(route, authUser) /= location
    /\ location' = Routed(route, authUser)
    /\ UNCHANGED <<storedUserId, authVars, pageVars, chatVars>>

(***************************************************************************)
(* Specifications                                                          *)
(***************************************************************************)
InitChat ==
    /\ sessionId = NoSession
    /\ messages = <<>>
    /\ inputValue = <<>>
    /\ isLoading = FALSE
    /\ sendReqs = <<>>
    /\ loadReqs = <<>>

\* the pages behind ProtectedRoute are shown to a logged-in user
InitAuth ==
    /\ authUser = "u1"
    /\ authLoading = FALSE
    /\ storedToken = "t"

InitTax ==
    /\ InitAuth
    /\ form = defaultValues
    /\ errors = {}
    /\ currentStep = 1
    /\ calculationResult = NoResult
    /\ isCalculating = FALSE
    /\ error = NoError
    /\ storedUserId = "u1"
    /\ storedSessionId = Null
    /\ location = "/calculator"
    /\ taxReq = NoReq
    /\ edits = 0

\* either ChatInterface source may be the one that is built
Init == variant \in Variants /\ InitChat /\ InitTax

Next ==
    \/ \E sid \in SessionIds \cup {NoSession} : SelectSession(sid)
    \/ RerunHistoryEffect
    \/ \E i \in 1..MaxInFlight, data \in LoadResponses : HistoryLoaded(i, data)
    \/ \E i \in 1..MaxInFlight : HistoryLoadFailed(i)
    \/ \E text \in InputTexts : SetInputValue(text)
    \/ handleSendMessage
    \/ \E i \in 1..MaxMessages, data \in SendResponses : SendResponseOk(i, data)
    \/ \E i \in 1..MaxMessages : SendFailed(i)

Spec == Init /\ [][Next]_vars

NextTax ==
    \/ \E fld \in RegisteredFields : \E v \in InputValues(fld) : EditField(fld, v)
    \/ ToggleDisabled
    \/ \E t \in DisabilityTypes : SelectDisabilityType(t)
    \/ \E p \in PropertyStatuses : SelectPropertyStatus(p)
    \/ nextStep
    \/ prevStep
    \/ SubmitForm
    \/ TaxRequestFailed
    \/ \E sid \in SessionIds : TaxSessionStarted(sid)
    \/ \E text \in ResultTexts : TaxResultReturned(text)
    \/ TaxResponseEmpty
    \/ openChat
    \/ StorageCleared

\* the calculator does not depend on the chat component
InitCalculator == variant = LastTurn /\ InitChat /\ InitTax

SpecTax == InitCalculator /\ [][NextTax]_vars

\* the wizard on step 2 with sub-investments already entered: the amounts a
\* user has typed into the six inputs, the 80C effect having run
EnteredAmounts == {0, 50000, 100000}

InitInvestments ==
    /\ variant = LastTurn /\ InitChat /\ InitAuth
    /\ \E t \in [Ui80CFields -> EnteredAmounts] :
          form = RunEffects([fld \in FormFields |->
                                IF fld \in Ui80CFields THEN t[fld]
                                ELSE defaultValues[fld]],
                            "ui_investments.epf")
    /\ errors = {}
    /\ currentStep = 2
    /\ calculationResult = NoResult
    /\ isCalculating = FALSE
    /\ error = NoError
    /\ storedUserId = "u1"
    /\ storedSessionId = Null
    /\ location = "/calculator"
    /\ taxReq = NoReq
    /\ edits = 0

NextInvestments ==
    \E fld \in Ui80CFields : \E v \in InputValues(fld) : EditField(fld, v)

SpecInvestments == InitInvestments /\ [][NextInvestments]_vars

\* dangerouslySetInnerHTML={{ __html: formatContent(message.content) }}
Rendered(i) == formatContent(messages[i].content)

\* texts of assistant turns: bullet marks, letters and line breaks
ContentChars == {"-", "a", "\n"}
Contents     == SeqsUpTo(ContentChars, MaxContent)

\* the chat view of a session whose history holds one assistant turn
InitRender ==
    /\ variant = LastTurn
    /\ sessionId \in SessionIds
    /\ \E c \in Contents : messages = <<Message("assistant", c, Null)>>
    /\ inputValue = <<>>
    /\ isLoading = FALSE
    /\ sendReqs = <<>>
    /\ loadReqs = <<>>
    /\ InitTax

NextRender ==
    \/ \E text \in InputTexts : SetInputValue(text)
    \/ handleSendMessage
    \/ \E i \in 1..MaxMessages : SendFailed(i)

SpecRender == InitRender /\ [][NextRender]_vars

\* ---- the Chat page after the hand-off ----
\* Chat.tsx mounts ChatInterface with sessionId = selectedSessionId, a state
\* that starts undefined; its only setters are handleSelectSession, whose
\* ChatSessions list is commented out, and onNewSession, which neither
\* ChatInterface source calls. Mounted under Chat.tsx the component is
\* therefore in its initial state with no session (the history effect sets
\* messages to []), and what the user can do is type.
OnChatPage == location = "/chat"

ChatPageInput(text) == OnChatPage /\ SetInputValue(text)

NextHandOff ==
    \/ NextTax
    \/ \E text \in InputTexts : ChatPageInput(text)

SpecHandOff == InitCalculator /\ [][NextHandOff]_vars

\* ---- ChatInterface under a parent that offers two sessions ----
\* (ChatSessions.onSelectSession -> setSelectedSessionId)
ListedSessions == {"A", "B"}

NextSessions ==
    \/ \E sid \in ListedSessions \cup {NoSession} : SelectSession(sid)
    \/ RerunHistoryEffect
    \/ \E i \in 1..MaxInFlight, data \in LoadResponses : HistoryLoaded(i, data)
    \/ \E i \in 1..MaxInFlight : HistoryLoadFailed(i)
    \/ \E text \in InputTexts : SetInputValue(text)
    \/ handleSendMessage
    \/ \E i \in 1..MaxMessages, data \in SendResponses : SendResponseOk(i, data)
    \/ \E i \in 1..MaxMessages : SendFailed(i)

SpecSessions == InitCalculator /\ [][NextSessions]_vars

\* ---- the provider in a browser with nothing stored ----
InitAuthProvider ==
    /\ variant = LastTurn /\ InitChat
    /\ authUser = Null
    /\ authLoading = TRUE
    /\ storedToken = Null
    /\ storedUserId = ""
    /\ location \in Routes
    /\ form = defaultValues
    /\ errors = {}
    /\ currentStep = 1
    /\ calculationResult = NoResult
    /\ isCalculating = FALSE
    /\ error = NoError
    /\ storedSessionId = Null
    /\ taxReq = NoReq
    /\ edits = 0

NextAuth ==
    \/ AuthInitEffect
    \/ Reload
    \/ \E data \in AuthResponses : login(data)
    \/ \E data \in AuthResponses : signup(data)
    \/ logout
    \/ \E route \in Routes : NavigateTo(route)

SpecAuth == InitAuthProvider /\ [][NextAuth]_vars

(***************************************************************************)
(* Properties of the conversation turn classifier                          *)
(***************************************************************************)
\* a message carries a tool-call id (the field is there and is not null)
HasToolCallId(m) == m.tool_call_id \notin {Null, Undefined}

\* the last turn of history h is an assistant interruption
PendingInterruption(h) ==
    /\ h /= <<>>
    /\ h[Len(h)].sender = "assistant"
    /\ HasToolCallId(h[Len(h)])

\* some assistant turn of h carries a tool-call id
AnyAssistantToolCall(h) ==
    \E i \in 1..Len(h) : h[i].sender = "assistant" /\ HasToolCallId(h[i])

\* this step sends a chat request; NewRequest is that request
SendStep   == Len(sendReqs') = Len(sendReqs) + 1
NewRequest == sendReqs'[Len(sendReqs')]

\* the message a send appends for the text typed
TypedMessage(text) == [sender |-> "user", content |-> text, tool_call_id |-> Undefined]

\* C1: in the last-turn ChatInterface the flag of every outgoing message is
\* true iff the history it is classified against is non-empty and its last
\* message is an assistant message with a tool_call_id (so the flag depends
\* on the last message only).
C1_FlagIffLastTurnPending ==
    [][ (variant = LastTurn /\ SendStep) =>
          (NewRequest.body.is_interruption_response
              <=> PendingInterruption(messages)) ]_vars

\* C1 witness: a message was sent right after an assistant turn with a
\* tool_call_id and went out flagged true.
C1_Witness ==
    /\ variant = LastTurn
    /\ Len(messages) >= 2
    /\ messages[Len(messages)].sender = "user"
    /\ PendingInterruption(SubSeq(messages, 1, Len(messages) - 1))
    /\ \E i \in 1..Len(sendReqs) : sendReqs[i].body.is_interruption_response

\* C2: the session starts Idle; a send is flagged by the state it finds
\* (AwaitingResponse iff the last turn is an assistant turn with a
\* tool_call_id) and leaves the session Idle; an appended turn leaves it
\* AwaitingResponse iff it is an assistant turn with a tool_call_id; so a
\* message sent
\* after [assistant with id, user, assistant without id] is flagged false.
C2_TurnTaking ==
    /\ ~LastTurnFlag(messages)
    /\ [][ variant = LastTurn =>
            /\ SendStep =>
                 /\ NewRequest.body.is_interruption_response
                       <=> PendingInterruption(messages)
                 /\ ~LastTurnFlag(messages')
                 /\ (/\ Len(messages) >= 3
                     /\ PendingInterruption(SubSeq(messages, 1, Len(messages) - 2))
                     /\ messages[Len(messages) - 1].sender = "user"
                     /\ ~HasToolCallId(messages[Len(messages)]))
                    => ~NewRequest.body.is_interruption_response
            /\ (/\ Len(messages') = Len(messages) + 1
                /\ SubSeq(messages', 1, Len(messages)) = messages) =>
                 (LastTurnFlag(messages')
                     <=> PendingInterruption(<<messages'[Len(messages')]>>)) ]_vars

\* C2 witness: m1 was sent while AwaitingResponse, its reply carried no
\* tool_call_id, and m2 has gone out flagged false.
C2_Witness ==
    /\ variant = LastTurn
    /\ Len(messages) >= 4
    /\ PendingInterruption(SubSeq(messages, 1, Len(messages) - 3))
    /\ messages[Len(messages) - 2] = TypedMessage(<<" ", "a">>)
    /\ messages[Len(messages) - 1].sender = "assistant"
    /\ ~HasToolCallId(messages[Len(messages) - 1])
    /\ messages[Len(messages)] = TypedMessage(<<" ", "a">>)
    /\ Len(sendReqs) = 1
    /\ ~sendReqs[1].body.is_interruption_response

\* the flag the other ChatInterface source computes for the same history
OtherVariantFlag(h) ==
    IF variant = LastTurn THEN FullHistoryFlag(h) ELSE LastTurnFlag(h)

\* C3 as stated: the two variants agree exactly on the histories in which no
\* assistant message other than the last one carries a tool_call_id.
C3_AgreeIffNoEarlierToolCall ==
    (FullHistoryFlag(messages) <=> LastTurnFlag(messages))
        <=> ~AnyAssistantToolCall(SubSeq(messages, 1, Len(messages) - 1))

\* C3 amended: the full-history variant flags an outgoing message iff some
\* assistant message of the history carries a tool_call_id; the flag sent is
\* the one the other variant would send exactly when the last message is an
\* assistant message with a tool_call_id or no assistant message carries one;
\* after [assistant with id, user, assistant without id] the full-history
\* variant sends true and the last-turn variant false.
C3_VariantsDiverge ==
    [][ SendStep =>
          LET flag == NewRequest.body.is_interruption_response
          IN  /\ variant = FullHistory => (flag <=> AnyAssistantToolCall(messages))
              /\ (flag <=> OtherVariantFlag(messages))
                    <=> (PendingInterruption(messages)
                            \/ ~AnyAssistantToolCall(messages))
              /\ (/\ Len(messages) = 3
                  /\ PendingInterruption(SubSeq(messages, 1, 1))
                  /\ messages[2].sender = "user"
                  /\ messages[3].sender = "assistant"
                  /\ ~HasToolCallId(messages[3]))
                 => (flag <=> variant = FullHistory) ]_vars

\* C3 witness: the full-history variant has sent a message flagged true on
\* the history [assistant with id, user, assistant without id].
C3_Witness ==
    /\ variant = FullHistory
    /\ Len(messages) = 4
    /\ PendingInterruption(SubSeq(messages, 1, 1))
    /\ messages[2].sender = "user"
    /\ messages[3].sender = "assistant" /\ ~HasToolCallId(messages[3])
    /\ messages[4].sender = "user"
    /\ Len(sendReqs) = 1
    /\ sendReqs[1].body.is_interruption_response

\* C4: every chat request has the body {message, is_interruption_response};
\* message is the text typed, untrimmed, and the flag classifies the history
\* as it was before the outgoing message was appended to it.
C4_RequestBody ==
    [][ SendStep =>
          /\ DOMAIN NewRequest.body = {"message", "is_interruption_response"}
          /\ NewRequest.body.message = inputValue
          /\ NewRequest.body.is_interruption_response
                <=> IF variant = LastTurn THEN PendingInterruption(messages)
                                          ELSE AnyAssistantToolCall(messages)
          /\ messages' = Append(messages, TypedMessage(inputValue)) ]_vars

\* C4 witness: a request flagged true is in flight although the history now
\* ends with the outgoing user message, whose text has its leading blank.
C4_Witness ==
    /\ messages /= <<>>
    /\ messages[Len(messages)] = TypedMessage(<<" ", "a">>)
    /\ \E i \in 1..Len(sendReqs) :
          sendReqs[i].body = [message |-> <<" ", "a">>,
                              is_interruption_response |-> TRUE]

\* the tool_call_id of the last element of an updated turn list, Null when
\* the list is absent or empty or that element has none
LastToolCallId(hist) ==
    IF hist.isArray /\ Len(hist.items) > 0
          /\ HasToolCallId(hist.items[Len(hist.items)])
    THEN hist.items[Len(hist.items)].tool_call_id
    ELSE Null

TaxSendStep   == ~taxReq.sent /\ taxReq'.sent
ValidatedStep == errors' /= errors \/ TaxSendStep

\* an amount is a number (not NaN, not missing)
Present(v) == v /= NaN /\ v /= UndefinedNum

\* the six sub-investments as entered, an empty one counting as 0
SubInvestment(f, fld) == IF Present(f[fld]) THEN f[fld] ELSE 0
SubInvestmentSum(f) ==
    SubInvestment(f, "ui_investments.epf") + SubInvestment(f, "ui_investments.ppf")
    + SubInvestment(f, "ui_investments.lic") + SubInvestment(f, "ui_investments.elss")
    + SubInvestment(f, "ui_investments.home_loan_principal")
    + SubInvestment(f, "ui_investments.other_80c")

\* the parents' age rule of the data model
Supplied(v) == Present(v) /\ v > 0
DerivedParentsAge(f) ==
    LET fa == f["ui_parents_age.father_age"]
        mo == f["ui_parents_age.mother_age"]
    IN  CASE Supplied(fa) /\ Supplied(mo) -> (fa + mo) \div 2
          [] Supplied(fa) /\ ~Supplied(mo) -> fa
          [] ~Supplied(fa) /\ Supplied(mo) -> mo
          [] OTHER -> 0

NonNegative(v) == Present(v) /\ v >= 0

MoneyFields ==
    {"health_insurance_premium", "parents_health_insurance_premium",
     "medical_expenses", "housing_loan_interest", "donation_amount",
     "education_loan_interest", "other_income.interest_from_savings",
     "other_income.fixed_deposit_interest"}

\* the ranges of the data model
InRange(p) ==
    /\ NonNegative(p["salary"])
    /\ Present(p["user_age"]) /\ 18 <= p["user_age"] /\ p["user_age"] <= 100
    /\ NonNegative(p["investments.80C_investments"])
    /\ p["investments.80C_investments"] <= 150000
    /\ NonNegative(p["investments.nps_contribution"])
    /\ p["investments.nps_contribution"] <= 50000
    /\ \A fld \in MoneyFields : NonNegative(p[fld])
    /\ NonNegative(p["parents_age"])
    /\ p["property_status"] \in {"self_occupied", "let_out", "deemed_let_out"}

\* C6: no tax submission is sent unless the profile passes validation: every
\* transmitted payload is within the ranges, and a submission is not sent
\* while the sub-investments add up to more than 150000.
C6_SentPayloadInRange ==
    [][ taxReq'.sent =>
          /\ InRange(taxReq'.user_details)
          /\ TaxSendStep => SubInvestmentSum(form) <= 150000 ]_vars

\* C6 witness: a submission whose 80C aggregate sits on the ceiling is out.
C6_Witness ==
    /\ taxReq.sent
    /\ taxReq.user_details["investments.80C_investments"] = 150000

DerivedFields == {"is_senior_citizen", "investments.80C_investments", "parents_age"}

\* the three derived fields of profile p are the derivations of the sources in f
DerivedFrom(p, f) ==
    /\ p["is_senior_citizen"] <=> (Present(f["user_age"]) /\ f["user_age"] >= 60)
    /\ p["investments.80C_investments"] = SubInvestmentSum(f)
    /\ p["parents_age"] = DerivedParentsAge(f)

\* C7: after every sequence of edits the derived fields are the derivations
\* of the current source fields, so they are when a submission is validated,
\* and the payload sent carries them; no derived field has an input.
C7_DerivedBeforeValidation ==
    /\ [](DerivedFrom(form, form) /\ DerivedFields \cap RegisteredFields = {})
    /\ [][ TaxSendStep => DerivedFrom(taxReq'.user_details, form) ]_vars

\* C7 witness: a payload sent after the age and a sub-investment were edited
\* carries the senior flag and the aggregate of the edited values.
C7_Witness ==
    /\ taxReq.sent
    /\ taxReq.user_details["user_age"] = 60
    /\ taxReq.user_details["is_senior_citizen"]
    /\ taxReq.user_details["investments.80C_investments"] = 50000

\* C8 as stated: in every transmitted profile the disability type is present
\* iff is_disabled is true.
C8_TypeIffDisabled ==
    taxReq.sent =>
        (taxReq.user_details["disability_details.type"] /= Null
            <=> taxReq.user_details["disability_details.is_disabled"])

\* the fields of f that are out of range or missing under the data model
Violations(f) ==
    { fld \in {"salary"} \cup MoneyFields : ~NonNegative(f[fld]) }
    \cup { fld \in {"user_age"} :
             ~(Present(f[fld]) /\ 18 <= f[fld] /\ f[fld] <= 100) }
    \cup { fld \in {"investments.80C_investments"} :
             ~(NonNegative(f[fld]) /\ f[fld] <= 150000) }
    \cup { fld \in {"investments.nps_contribution"} :
             ~(NonNegative(f[fld]) /\ f[fld] <= 50000) }
    \cup { fld \in {"parents_age"} : ~NonNegative(f[fld]) }
    \cup { fld \in {"disability_details.type"} :
             f["disability_details.is_disabled"] /\ f[fld] = Undefined }

\* C9 as stated: one validation pass reports exactly the fields that are out
\* of range or missing, each against its own field (a negative salary with
\* is_disabled and no type gives two violations).
C9_AllViolationsReported ==
    [][ ValidatedStep => errors' = Violations(form) ]_vars

\* C10: the 80C aggregate is the exact sum of the six sub-investments and is
\* sent verbatim; it is not truncated: when they total more than 150000 the
\* derived value is above 150000, validation reports it and nothing is sent.
C10_ExactSumNotTruncated ==
    /\ [](form["investments.80C_investments"] = SubInvestmentSum(form))
    /\ [][ /\ TaxSendStep =>
                taxReq'.user_details["investments.80C_investments"]
                    = SubInvestmentSum(form)
           /\ (ValidatedStep /\ SubInvestmentSum(form) > 150000) =>
                /\ form["investments.80C_investments"] > 150000
                /\ "investments.80C_investments" \in errors'
                /\ ~taxReq'.sent ]_vars

\* C10 witness: sub-investments of 200000 were submitted; the aggregate is
\* 200000 and validation has reported it.
C10_Witness ==
    /\ SubInvestmentSum(form) = 200000
    /\ form["investments.80C_investments"] = 200000
    /\ "investments.80C_investments" \in errors
    /\ ~taxReq.sent

\* C11 as stated: the derived 80C value is the sum of the sub-investments
\* clamped to the ceiling, so it always lies in 0..150000.
C11_DerivedClamped ==
    /\ form["investments.80C_investments"] >= 0
    /\ form["investments.80C_investments"] <= 150000
    /\ SubInvestmentSum(form) > 150000 => form["investments.80C_investments"] = 150000

\* the smaller and the larger of the supplied parents' ages
SuppliedAges(f) ==
    { f[fld] : fld \in { x \in UiParentsFields : Supplied(f[x]) } }

\* C12: parents_age is the floored average of father's and mother's age when
\* both are supplied (each > 0), the supplied one when exactly one is, and 0
\* when neither is; it is never negative and lies between the smaller and the
\* larger supplied age.
C12_ParentsAgeDerivation ==
    LET fa == form["ui_parents_age.father_age"]
        mo == form["ui_parents_age.mother_age"]
        pa == form["parents_age"]
    IN  /\ (Supplied(fa) /\ Supplied(mo)) =>
              /\ 2 * pa <= fa + mo
              /\ fa + mo < 2 * pa + 2
        /\ (Supplied(fa) /\ ~Supplied(mo)) => pa = fa
        /\ (~Supplied(fa) /\ Supplied(mo)) => pa = mo
        /\ (~Supplied(fa) /\ ~Supplied(mo)) => pa = 0
        /\ pa >= 0
        /\ \A a \in SuppliedAges(form) :
              /\ \E b \in SuppliedAges(form) : b <= pa
              /\ \E b \in SuppliedAges(form) : pa <= b

\* C12 witness: father 70 and mother 63 were entered; parents_age is 66.
C12_Witness ==
    /\ form["ui_parents_age.father_age"] = 70
    /\ form["ui_parents_age.mother_age"] = 63
    /\ form["parents_age"] = 66

\* C13: is_senior_citizen is true iff user_age >= 60 (false at 59, true at
\* 60), and every change of user_age overwrites the value held before.
C13_SeniorIffSixty ==
    /\ [](form["is_senior_citizen"]
            <=> (Present(form["user_age"]) /\ form["user_age"] >= 60))
    /\ [](form["user_age"] = 59 => ~form["is_senior_citizen"])
    /\ [](form["user_age"] = 60 => form["is_senior_citizen"])
    /\ [][ form'["user_age"] /= form["user_age"] =>
             (form'["is_senior_citizen"]
                 <=> (Present(form'["user_age"]) /\ form'["user_age"] >= 60)) ]_vars

\* C13 witness: the age went to 60 and then to 59; the flag set at 60 is gone.
C13_Witness ==
    /\ form["user_age"] = 59
    /\ ~form["is_senior_citizen"]
    /\ edits = 2
    /\ \A fld \in FormFields \ {"user_age"} : form[fld] = defaultValues[fld]

(***************************************************************************)
(* Properties of the submit response handling                              *)
(***************************************************************************)
\* this step handles the response (or the failure) of the tax submission
TaxDoneStep == taxReq.sent /\ ~taxReq'.sent

\* the three outcomes of a handled response
HandedOff ==
    /\ location' = "/chat"
    /\ storedSessionId' \in SessionIds
    /\ calculationResult' = calculationResult
    /\ currentStep' = currentStep
    /\ currentStep' /= 6
    /\ error' = NoError

ResultShown ==
    /\ calculationResult'.present
    /\ currentStep' = 6
    /\ location' = location
    /\ storedSessionId' = storedSessionId
    /\ error' = NoError

Errored ==
    /\ error' /= NoError
    /\ calculationResult' = calculationResult
    /\ currentStep' = currentStep
    /\ currentStep' /= 6
    /\ location' = location
    /\ storedSessionId' = storedSessionId

\* C14: a response with a session_id stores the id and hands over to the
\* chat page, parses no result and does not enter the result step; one with
\* a result text instead stores the parsed result and enters the result
\* step; one with neither sets an error, stores no result and does not enter
\* the result step.
C14_ResponseDispatch ==
    [][ TaxDoneStep =>
          /\ HandedOff \/ ResultShown \/ Errored
          /\ \A sid \in SessionIds :
                TaxSessionStarted(sid) => (HandedOff /\ storedSessionId' = sid)
          /\ \A text \in ResultTexts :
                TaxResultReturned(text) =>
                    (ResultShown /\ calculationResult' = parseTaxResponse(text))
          /\ TaxResponseEmpty => Errored ]_vars

\* C14 witness: the wizard is on the result step with the result of a text.
C14_Witness ==
    /\ currentStep = 6
    /\ calculationResult.present
    /\ calculationResult.total_deductions = 200000
    /\ location = "/calculator"
    /\ storedSessionId = Null

\* C14 witness of the hand-off: the session id is stored, the chat page is
\* shown, and the wizard never entered the result step.
C14_HandOffReached ==
    /\ location = "/chat"
    /\ storedSessionId \in SessionIds
    /\ ~calculationResult.present
    /\ currentStep = totalSteps

\* C15 as stated: a result text without the totals block is a failure; the
\* result step is entered only when the three totals came from the response.
C15_NoDefaultedTotals ==
    [][ \A text \in ResultTexts :
          (TaxResultReturned(text) /\ ~text.hasTotals) =>
              (currentStep' /= 6 /\ error' /= NoError) ]_vars

\* C16: a failed tax submission sets one calculator-level error message and
\* ends the calculation; the step, the form values, the field errors and the
\* stored result stay as they were; the submit control is enabled again, and
\* a later submit of the valid form clears the error and sends a new request.
C16_FailureIsRetryable ==
    /\ [][ (TaxDoneStep /\ TaxRequestFailed) =>
             /\ error' = ErrFailed
             /\ ~isCalculating'
             /\ UNCHANGED <<currentStep, form, errors, calculationResult,
                            storedSessionId, location>> ]_vars
    /\ [](error = ErrFailed => (~isCalculating /\ ~taxReq.sent))
    /\ []((error = ErrFailed /\ currentStep = totalSteps) => ENABLED SubmitForm)
    /\ [][ (error = ErrFailed /\ SubmitForm /\ Resolver(form) = {}
                /\ storedUserId /= "") =>
             /\ error' = NoError
             /\ isCalculating'
             /\ taxReq' = TaxRequest(storedUserId, requestPayload(ParsedData(form))) ]_vars

\* C16 witness: a submission failed; the wizard is still on step 5 with the
\* entered values, no result, and is not calculating.
C16_Witness ==
    /\ error = ErrFailed
    /\ ~isCalculating
    /\ ~taxReq.sent
    /\ currentStep = totalSteps
    /\ form["salary"] = 500000
    /\ ~calculationResult.present

\* C17: a request goes out only in a submit step, one per accepted submit;
\* isCalculating is true exactly while it is outstanding; while it is, the
\* submit control is disabled and the request is neither replaced nor sent
\* again; every outcome ends the calculation.
C17_OneRequestPerSubmit ==
    /\ [](isCalculating <=> taxReq.sent)
    /\ [](isCalculating => ~ENABLED SubmitForm)
    /\ [][ /\ TaxSendStep => SubmitForm
           /\ taxReq.sent => (taxReq' = taxReq \/ ~taxReq'.sent)
           /\ (taxReq.sent /\ taxReq' = taxReq) => UNCHANGED <<isCalculating, error, errors>>
           /\ TaxDoneStep =>
                 (~isCalculating' /\ (HandedOff \/ ResultShown \/ Errored)) ]_vars

\* C17 witness: a request is outstanding and the wizard is calculating.
C17_Witness ==
    /\ taxReq.sent
    /\ isCalculating
    /\ currentStep = totalSteps
    /\ error = NoError
    /\ taxReq.userId = "u1"

(***************************************************************************)
(* Properties of the chat requests                                         *)
(***************************************************************************)
\* this step completes (resolves or fails) a chat send; a history load
SendDoneStep == Len(sendReqs') < Len(sendReqs)
LoadDoneStep == Len(loadReqs') < Len(loadReqs)

\* C18 as stated: in the last-turn ChatInterface handleSendMessage does
\* nothing while the input is blank, isLoading is true or no session is set;
\* an accepted send adds exactly one request; and while a send is
\* outstanding isLoading stays true until a send resolves or fails: no other
\* completion clears it.
C18_WaitingUntilSendDone ==
    [][ variant = LastTurn =>
          /\ SendStep =>
                /\ Trim(inputValue) /= <<>> /\ ~isLoading /\ sessionId /= NoSession
                /\ sendReqs' = Append(sendReqs, NewRequest)
          /\ (~SendStep /\ ~SendDoneStep) => sendReqs' = sendReqs
          /\ (sendReqs /= <<>> /\ isLoading /\ ~isLoading') => SendDoneStep ]_vars

\* what the load effect should make of one backend turn
MappedTurn(turn) ==
    [sender |-> IF turn.role = "assistant" THEN "assistant" ELSE "user",
     content |-> turn.content,
     tool_call_id |-> IF turn.tool_call_id \in {Null, Undefined}
                      THEN Null ELSE turn.tool_call_id]

IsErrorMessage(m) ==
    /\ m.sender = "assistant"
    /\ m.content = ErrorText
    /\ ~HasToolCallId(m)

ProfileOf(payload) == [fld \in SchemaFields |-> payload[fld]]

\* C21 as stated: every field of a transmitted request equals the validated
\* form value of the same name, so reading the payload back through the
\* field names gives the validated profile, no value changed.
C21_PayloadEqualsProfile ==
    [][ TaxSendStep =>
          /\ \A fld \in SchemaFields : taxReq'.user_details[fld] = form[fld]
          /\ ProfileOf(taxReq'.user_details) = ParsedData(form) ]_vars

\* C21 amended: every field of a transmitted request equals the validated
\* form value of the same name, except that a disability type that is
\* absent from the form is transmitted as null; a type that is present, and
\* every number, flag and status, is transmitted unchanged, and the payload
\* has no other field.
C21_PayloadRoundTrip ==
    [][ TaxSendStep =>
          /\ DOMAIN taxReq'.user_details = SchemaFields
          /\ \A fld \in SchemaFields \ {"disability_details.type"} :
                taxReq'.user_details[fld] = form[fld]
          /\ taxReq'.user_details["disability_details.type"]
                = (IF form["disability_details.type"] = Undefined
                   THEN Null ELSE form["disability_details.type"]) ]_vars

\* C21 witness: a profile with a salary and a health premium of the user
\* only, and no disability type, has been transmitted.
C21_Witness ==
    /\ taxReq.sent
    /\ taxReq.user_details["salary"] = 500000
    /\ taxReq.user_details["health_insurance_premium"] = 1000
    /\ taxReq.user_details["parents_health_insurance_premium"] = 0
    /\ taxReq.user_details["disability_details.type"] = Null

RawFields == Ui80CFields \cup UiParentsFields

\* C22: no tax submission carries the six 80C sub-investments or the
\* father's and mother's ages; what leaves the client of them is the derived
\* 80C aggregate and the derived parents_age.
C22_RawInputsNotSent ==
    /\ [](taxReq.sent => DOMAIN taxReq.user_details \cap RawFields = {})
    /\ [][ TaxSendStep =>
             /\ taxReq'.user_details["investments.80C_investments"]
                   = SubInvestmentSum(form)
             /\ taxReq'.user_details["parents_age"] = DerivedParentsAge(form) ]_vars

\* C22 witness: EPF 50000 and a father's age of 70 were entered and the
\* submission sent carries the aggregate 50000 and parents_age 70.
C22_Witness ==
    /\ form["ui_investments.epf"] = 50000
    /\ form["ui_parents_age.father_age"] = 70
    /\ taxReq.sent
    /\ taxReq.user_details["investments.80C_investments"] = 50000
    /\ taxReq.user_details["parents_age"] = 70

\* C23 as stated: the two calculator sources that post to
\* start_new_tax_session send the same body for the same validated form
\* data: the same key names under the same nesting.
C23_SameRequestBody ==
    [][ TaxSendStep =>
          /\ DOMAIN RequestBody(taxReq'.user_details)
                = DOMAIN StructuredRequestBody(ParsedData(form))
          /\ RequestBody(taxReq'.user_details)
                = StructuredRequestBody(ParsedData(form)) ]_vars

(***************************************************************************)
(* Properties of the 80C aggregate                                         *)
(***************************************************************************)
\* the exchanges of two of the six sub-investment inputs; every ordering of
\* the inputs is a composition of exchanges
Exchanges80C ==
    { [fld \in Ui80CFields |-> IF fld = a THEN b ELSE IF fld = b THEN a ELSE fld] :
        a, b \in Ui80CFields }

\* form f with the six amounts handed to the inputs in the order p
Permuted(f, p) ==
    [fld \in FormFields |-> IF fld \in Ui80CFields THEN f[p[fld]] ELSE f[fld]]

NonNegativeTuple(f) == \A fld \in Ui80CFields : NonNegative(f[fld])

\* C24: over non-negative sub-investment tuples the 80C aggregate does not
\* depend on the order of the six inputs, and raising inputs never lowers it.
C24_AggregateCommutativeMonotonic ==
    /\ [](NonNegativeTuple(form) =>
            \A p \in Exchanges80C :
                Total80C(Permuted(form, p)) = form["investments.80C_investments"])
    /\ [][ (/\ NonNegativeTuple(form) /\ NonNegativeTuple(form')
            /\ \A fld \in Ui80CFields : form'[fld] >= form[fld]) =>
              form'["investments.80C_investments"]
                  >= form["investments.80C_investments"] ]_vars

\* C24 witness: with EPF 50000 and a home-loan principal of 100000 entered,
\* the other four at 0, the aggregate is 150000.
C24_Witness ==
    /\ form["ui_investments.epf"] = 50000
    /\ form["ui_investments.home_loan_principal"] = 100000
    /\ \A fld \in Ui80CFields \ {"ui_investments.epf",
                                 "ui_investments.home_loan_principal"} : form[fld] = 0
    /\ form["investments.80C_investments"] = 150000
    /\ edits = 2

(***************************************************************************)
(* Properties of the message rendering                                     *)
(***************************************************************************)
\* the lines of a text
RECURSIVE Lines(_)
Lines(s) ==
    LET e == LineEnd(s, 1)
    IN  IF e > Len(s) THEN <<s>>
        ELSE <<SubSeq(s, 1, e - 1)>> \o Lines(SubSeq(s, e + 1, Len(s)))

\* a bullet line has a leading "-" or "*"
IsBulletLine(l) == l /= <<>> /\ IsBulletChar(l[1])

\* the number of maximal runs of contiguous bullet lines
NumRuns(ls) ==
    Cardinality({ i \in 1..Len(ls) :
                    IsBulletLine(ls[i]) /\ (i = 1 \/ ~IsBulletLine(ls[i - 1])) })

NumBullets(ls) == Cardinality({ i \in 1..Len(ls) : IsBulletLine(ls[i]) })

\* the characters of the non-bullet lines, in order
RECURSIVE PlainText(_)
PlainText(ls) ==
    IF ls = <<>> THEN <<>>
    ELSE (IF IsBulletLine(Head(ls)) THEN <<>> ELSE Head(ls)) \o PlainText(Tail(ls))

Count(h, tag) == Cardinality({ i \in 1..Len(h) : h[i] = tag })

\* the characters of h that lie outside every list container, line breaks
\* aside
RECURSIVE OutsideText(_, _)
OutsideText(h, inside) ==
    IF h = <<>> THEN <<>>
    ELSE IF Head(h) = "<ul>" THEN OutsideText(Tail(h), TRUE)
    ELSE IF Head(h) = "</ul>" THEN OutsideText(Tail(h), FALSE)
    ELSE (IF inside \/ Head(h) = "\n" THEN <<>> ELSE <<Head(h)>>)
             \o OutsideText(Tail(h), inside)

\* C25 as stated: in the rendering of an assistant message every maximal
\* run of contiguous bullet lines is one list container that holds all the
\* items of the run, and no non-bullet line lies inside a list container.
C25_OneContainerPerRun ==
    \A i \in 1..Len(messages) :
        messages[i].sender = "assistant" =>
            LET ls == Lines(messages[i].content)
            IN  /\ Count(Rendered(i), "<ul>") = NumRuns(ls)
                /\ Count(Rendered(i), "<li>") = NumBullets(ls)
                /\ OutsideText(Rendered(i), FALSE) = PlainText(ls)

(***************************************************************************)
(* Properties of the session hand-off                                      *)
(***************************************************************************)
\* C26 as stated: after a submit response with a session_id (stored, and
\* the chat page shown) ChatInterface runs with that sessionId, so that the
\* message the user then types can be sent in that session.
C26_HandOffReachesChat ==
    (OnChatPage /\ storedSessionId \in SessionIds /\ Trim(inputValue) /= <<>>) =>
        /\ sessionId = storedSessionId
        /\ ENABLED handleSendMessage

(***************************************************************************)
(* Properties of the replies across sessions                               *)
(***************************************************************************)
\* C27 as stated: every assistant reply or error message appended to the
\* local history answers a message that was sent under the session now
\* displayed; a reply to a message sent under session A is never appended to
\* the history shown for session B.
C27_RepliesStayInSession ==
    [][ (SendDoneStep /\ Len(messages') = Len(messages) + 1) =>
          \A i \in 1..Len(sendReqs) :
              sendReqs' = RemoveAt(sendReqs, i) => sendReqs[i].session = sessionId ]_vars

(***************************************************************************)
(* Properties of the wizard steps                                          *)
(***************************************************************************)
\* C28: currentStep is always in 1..6; Next moves one step forward and never
\* past step 5; Previous moves one step back, never below 1, and is disabled
\* at step 1 and at step 6; a submission is only initiated at step 5; step 6
\* is entered only when a result text came back, so at step 6 there is a
\* result; and no control leaves step 6 for an earlier step.
C28_WizardSteps ==
    /\ [](currentStep \in 1..6)
    /\ [](currentStep = 6 => calculationResult.present)
    /\ [](currentStep \in {1, 6} => ~ENABLED prevStep)
    /\ [](currentStep >= totalSteps => ~ENABLED nextStep)
    /\ [][ /\ nextStep => (currentStep' = currentStep + 1 /\ currentStep' <= totalSteps)
           /\ prevStep => (currentStep' = currentStep - 1 /\ currentStep' >= 1)
           /\ TaxSendStep => currentStep = totalSteps
           /\ currentStep' /= currentStep =>
                 \/ nextStep
                 \/ prevStep
                 \/ /\ currentStep' = 6
                    /\ \E text \in ResultTexts : TaxResultReturned(text)
           /\ currentStep = 6 => currentStep' = 6 ]_vars

\* C28 witness: the wizard sits on step 6 with the result of a text without
\* a totals block, after a submission made at step 5.
C28_Witness ==
    /\ currentStep = 6
    /\ calculationResult.present
    /\ calculationResult.total_deductions = 150000
    /\ calculationResult.taxable_income = 0
    /\ ~taxReq.sent
    /\ ~isCalculating

(***************************************************************************)
(* Properties of the user id check                                         *)
(***************************************************************************)
\* C29: a submission made while no user id is stored sends no request, sets
\* the error "User ID is required for tax calculation", leaves the wizard
\* step and the result as they were and ends not calculating; every request
\* sent carries the stored user's id.
C29_NoUserNoRequest ==
    /\ [][ (SubmitForm /\ Resolver(form) = {} /\ storedUserId = "") =>
             /\ ~taxReq'.sent
             /\ error' = ErrNoUser
             /\ ~isCalculating'
             /\ UNCHANGED <<currentStep, calculationResult>> ]_vars
    /\ [][ TaxSendStep =>
             (storedUserId /= "" /\ taxReq'.userId = storedUserId) ]_vars
    /\ [](taxReq.sent => taxReq.userId /= "")

\* C29 witness: the stored user was removed and the valid profile submitted
\* at step 5: the error is shown, nothing is in flight.
C29_Witness ==
    /\ storedUserId = ""
    /\ error = ErrNoUser
    /\ ~taxReq.sent
    /\ ~isCalculating
    /\ currentStep = totalSteps
    /\ errors = {}
    /\ ~calculationResult.present

(***************************************************************************)
(* Properties of the stored login                                          *)
(***************************************************************************)
\* the mount effect of a (re-)initialised provider runs in this step
AuthInitStep == authLoading /\ ~authLoading'

\* C30 as stated: the user record is stored by a successful login or signup
\* and removed by logout only; a provider re-initialised while it is stored
\* restores that user, and a protected route then still shows its content;
\* re-initialised after logout it yields no user.
C30_LoginSurvivesReload ==
    /\ [][ storedUserId' /= storedUserId =>
             \/ /\ storedUserId' /= "" /\ authUser' = storedUserId'
                /\ \E data \in AuthResponses : login(data) \/ signup(data)
             \/ storedUserId' = "" /\ logout ]_vars
    /\ [][ AuthInitStep =>
             /\ storedUserId /= "" =>
                   /\ authUser' = storedUserId
                   /\ location \in ProtectedRoutes => location' = location
             /\ storedUserId = "" => authUser' = Null ]_vars

====
